---- MODULE Spec2Model ----
(***************************************************************************)
(* A model of tracc's time sheet (src/src/timesheet.rs): the TimePoint     *)
(* value, the TimeSheet with its ListView hooks (normal_mode,              *)
(* append_to_current, backspace) and the grouping functions                *)
(* (grouped_times, time_by_tasks, sum_as_str, format_duration,             *)
(* effective_text).                                                        *)
(*                                                                         *)
(* Conventions.                                                            *)
(*  - A Rust String is a sequence of one-character strings, so that        *)
(*    splitting, popping, pushing and formatting are computed and not      *)
(*    assumed.                                                             *)
(*  - A time::Time is the number of seconds since midnight (0..86399); the *)
(*    sub-second part of the wall clock is left out.  A time::Duration is  *)
(*    a (possibly negative) number of seconds.                             *)
(*  - `selected` is the usize of the code (0-based); the entry it names is *)
(*    times[selected + 1].                                                 *)
(*  - An out-of-bounds index (`self.times[self.selected]`) is a Rust       *)
(*    panic: it sets `panicked` and nothing runs afterwards.               *)
(***************************************************************************)
EXTENDS Integers, Sequences, FiniteSets, TLC

VARIABLES
    times,      \* TimeSheet.times: Seq of [text, time]
    selected,   \* TimeSheet.selected (0-based)
    register,   \* TimeSheet.register: None or a TimePoint
    mode,       \* "normal" or "insert": which ListView hooks the key loop calls
    panicked,   \* TRUE once an index went out of bounds
    last,       \* the operation that produced this state
    before,     \* [times, selected, register] as they were before `last`
    keys,       \* number of key events handled so far
    now,        \* the wall clock value the last call sampled
    arg,        \* the argument of the last pure-function call
    out         \* the result of the last pure-function call

vars == <<times, selected, register, mode, panicked, last, before, keys, now, arg, out>>

(***************************************************************************)
(* Bounds of the model.                                                    *)
(***************************************************************************)
MaxKeys == 8
MaxLoad == 3
MaxAggLen == 3
MaxLabelLen == 4
MaxMinutes == 310

None == [none |-> TRUE]

(***************************************************************************)
(* Strings.                                                                *)
(***************************************************************************)
\* The characters the model uses, in byte order (Rust compares Strings bytewise).
ByteOrder ==
    <<" ", "(", ")", "-", "0", "1", "2", "3", "4", "5", "6", "7", "8", "9", ":",
      "[", "]", "a", "b", "c", "d", "e", "g", "h", "i", "k", "l", "m", "n", "o",
      "p", "q", "r", "s", "t", "u", "v", "x", "|">>

Byte(c) == CHOOSE i \in 1..Len(ByteOrder) : ByteOrder[i] = c

Digits == <<"0", "1", "2", "3", "4", "5", "6", "7", "8", "9">>

IsDigit(c) == \E i \in 1..10 : Digits[i] = c

DigitVal(c) == (CHOOSE i \in 1..10 : Digits[i] = c) - 1

\* Index of the first occurrence of c in s, 0 when there is none.
Find(s, c) ==
    IF \E i \in 1..Len(s) : s[i] = c
    THEN CHOOSE i \in 1..Len(s) : s[i] = c /\ \A j \in 1..(i - 1) : s[j] # c
    ELSE 0

\* Index of the last occurrence of c in s, 0 when there is none.
RFind(s, c) ==
    IF \E i \in 1..Len(s) : s[i] = c
    THEN CHOOSE i \in 1..Len(s) : s[i] = c /\ \A j \in (i + 1)..Len(s) : s[j] # c
    ELSE 0

\* str::splitn(2, " ") collected into a Vec: one part when there is no space.
splitn2(s) ==
    LET i == Find(s, " ")
    IN  IF i = 0 THEN <<s>> ELSE <<SubSeq(s, 1, i - 1), SubSeq(s, i + 1, Len(s))>>

\* .replace('[', "").replace(']', "")
strip_brackets(s) == SelectSeq(s, LAMBDA c : c \notin {"[", "]"})

\* Decimal rendering of a natural number ("{}" on a non-negative integer).
RECURSIVE NatStr(_)
NatStr(n) == IF n < 10 THEN <<Digits[n + 1]>> ELSE NatStr(n \div 10) \o <<Digits[(n % 10) + 1]>>

\* "{}" on an i64.
IntStr(n) == IF n < 0 THEN <<"-">> \o NatStr(-n) ELSE NatStr(n)

\* "{:02}" on an i64: padded with zeros to a width of two.
Pad2(n) == IF 0 <= n /\ n < 10 THEN <<"0">> \o NatStr(n) ELSE IntStr(n)

\* Integer division rounding toward zero (Rust's `/` on signed integers).
TruncDiv(a, b) == IF a >= 0 THEN a \div b ELSE -((-a) \div b)

(***************************************************************************)
(* Times and time points.                                                  *)
(***************************************************************************)
HM(h, m) == h * 3600 + m * 60

\* A format with the hour of the 12-hour clock ("%I:%M").
TIME_FORMAT_12(t) ==
    LET h24 == t \div 3600
        h == IF h24 % 12 = 0 THEN 12 ELSE h24 % 12
        m == (t % 3600) \div 60
    IN  <<Digits[(h \div 10) + 1], Digits[(h % 10) + 1], ":",
          Digits[(m \div 10) + 1], Digits[(m % 10) + 1]>>

\* Time::format("%H:%M")
TIME_FORMAT(t) ==
    LET h == t \div 3600
        m == (t % 3600) \div 60
    IN  <<Digits[(h \div 10) + 1], Digits[(h % 10) + 1], ":",
          Digits[(m \div 10) + 1], Digits[(m % 10) + 1]>>

\* Time::parse(s, "%H:%M") of the time crate (0.2): two digits of an hour below
\* 24, a colon, two digits of a minute below 60; what follows is not looked at.
Time_parse(s) ==
    IF /\ Len(s) >= 5
       /\ IsDigit(s[1]) /\ IsDigit(s[2]) /\ s[3] = ":" /\ IsDigit(s[4]) /\ IsDigit(s[5])
       /\ DigitVal(s[1]) * 10 + DigitVal(s[2]) < 24
       /\ DigitVal(s[4]) * 10 + DigitVal(s[5]) < 60
    THEN [ok |-> TRUE,
          time |-> HM(DigitVal(s[1]) * 10 + DigitVal(s[2]), DigitVal(s[4]) * 10 + DigitVal(s[5]))]
    ELSE [ok |-> FALSE, time |-> 0]

\* format!("[{}] {}", time.format(TIME_FORMAT), text)
display_text(time, text) == <<"[">> \o TIME_FORMAT(time) \o <<"]", " ">> \o text

\* TimePoint::new(text) with the wall clock at `clock`.
TimePoint_new(text, clock) == [time |-> clock, text |-> display_text(clock, text)]

\* TimePoint::default()
TimePoint_default(clock) == TimePoint_new(<<>>, clock)

(***************************************************************************)
(* The sheet: [times, selected, register].                                 *)
(***************************************************************************)
Sheet(t, s, r) == [times |-> t, selected |-> s, register |-> r]

BoundedSeqs(S, n) == UNION {[1..k -> S] : k \in 0..n}

RemoveAt(s, i) == SubSeq(s, 1, i - 1) \o SubSeq(s, i + 1, Len(s))

\* usize::saturating_sub
saturating_sub(a, b) == IF a >= b THEN a - b ELSE 0

\* The record a file holds for an entry the program committed: its text is the
\* display text of its time.
Saved(time, label) == [time |-> time, text |-> display_text(time, label)]

\* Entries a saved file may hold: a committed one with an empty label, a
\* committed one with a label, and the "start" entry of an earlier run, which
\* TimePoint::new made and nothing re-timed (its time keeps the seconds).
FilePoints ==
    {Saved(HM(10, 0), <<>>), Saved(HM(10, 1), <<"a">>),
     TimePoint_new(<<"s", "t", "a", "r", "t">>, HM(10, 0) + 30)}

\* What open_or_create may find at `path`: no file, a file that is not a JSON
\* array of records, or an array of records.  serde accepts any array: the
\* empty one and one that is not in time order included.
Files ==
    {[kind |-> k, entries |-> <<>>] : k \in {"absent", "corrupt"}}
        \cup {[kind |-> "json", entries |-> e] : e \in BoundedSeqs(FilePoints, MaxLoad)}

\* Wall clock values for TimePoint::new in open_or_create.
Clocks == {HM(10, 0) + 30, HM(23, 59)}

\* read_times: Some(vec) when the file opens and deserializes, None otherwise.
read_times(file) ==
    IF file.kind = "json" THEN [none |-> FALSE, value |-> file.entries]
    ELSE [none |-> TRUE, value |-> <<>>]

\* TimeSheet::open_or_create
open_or_create(file, clock) ==
    LET r == read_times(file)
    IN  Sheet(IF r.none THEN <<TimePoint_new(<<"s", "t", "a", "r", "t">>, clock)>> ELSE r.value,
              0, None)

\* A sort that is not stable: an entry goes before those of equal time.
InsertBeforeEqual(sorted, e) ==
    LET k == Cardinality({i \in 1..Len(sorted) : sorted[i].time < e.time})
    IN  SubSeq(sorted, 1, k) \o <<e>> \o SubSeq(sorted, k + 1, Len(sorted))

RECURSIVE sort_unstable_by_key(_)
sort_unstable_by_key(s) ==
    IF s = <<>> THEN <<>>
    ELSE InsertBeforeEqual(sort_unstable_by_key(SubSeq(s, 1, Len(s) - 1)), s[Len(s)])

\* Vec::sort_by_key(|t| t.time): a stable sort.
InsertByTime(sorted, e) ==
    LET k == Cardinality({i \in 1..Len(sorted) : sorted[i].time <= e.time})
    IN  SubSeq(sorted, 1, k) \o <<e>> \o SubSeq(sorted, k + 1, Len(sorted))

RECURSIVE sort_by_key(_)
sort_by_key(s) ==
    IF s = <<>> THEN <<>>
    ELSE InsertByTime(sort_by_key(SubSeq(s, 1, Len(s) - 1)), s[Len(s)])

\* ListView::remove_current: the current entry is cut into the register.
remove_current(sh) ==
    IF sh.times = <<>> THEN sh
    ELSE Sheet(RemoveAt(sh.times, sh.selected + 1), sh.selected, sh.times[sh.selected + 1])

\* ListView::selection_up and selection_down: clamped to the bounds of the list.
selection_up(sh) == [sh EXCEPT !.selected = saturating_sub(sh.selected, 1)]

selection_down(sh) ==
    LET top == saturating_sub(Len(sh.times), 1)
    IN  [sh EXCEPT !.selected = IF sh.selected + 1 < top THEN sh.selected + 1 ELSE top]

\* self.times[self.selected] is in bounds.
InBounds(sh) == sh.selected < Len(sh.times)

\* current(): the selected entry.
current(sh) == sh.times[sh.selected + 1]

\* A commit that falls back to midnight, not to the old time, on a parse error.
commit_time_or_default(prefix, old_time) ==
    LET r == Time_parse(strip_brackets(prefix))
    IN  IF r.ok THEN r.time ELSE 0

\* normal_mode, lines 150-152: the parsed time, or the old one on a parse error.
commit_time(prefix, old_time) ==
    LET r == Time_parse(strip_brackets(prefix))
    IN  IF r.ok THEN r.time ELSE old_time

\* A rewrite that formats the text before it assigns the parsed time.
rewritten_stale(entry, parts) ==
    [time |-> commit_time(parts[1], entry.time), text |-> display_text(entry.time, parts[2])]

\* normal_mode, lines 148-153: the selected entry rewritten from its parts.
rewritten(entry, parts) ==
    LET t == commit_time(parts[1], entry.time)
    IN  [time |-> t, text |-> display_text(t, parts[2])]

\* normal_mode, lines 143-147: the entry is removed and the selection moves up.
delete_branch(sh) ==
    LET r == remove_current(sh)
    IN  [r EXCEPT !.selected = saturating_sub(r.selected, 1)]

\* normal_mode, lines 148-154: the entry is rewritten and the list sorted.
rewrite_branch(sh, parts) ==
    [sh EXCEPT !.times = sort_by_key([sh.times EXCEPT ![sh.selected + 1] = rewritten(current(sh), parts)])]

\* TimeSheet::normal_mode on a sheet whose selection is in bounds.
normal_mode_sheet(sh) ==
    LET parts == splitn2(current(sh).text)
    IN  IF Len(parts) < 2 THEN delete_branch(sh) ELSE rewrite_branch(sh, parts)

\* TimeSheet::append_to_current: String::push on the selected entry's text.
append_sheet(sh, chr) ==
    [sh EXCEPT !.times[sh.selected + 1].text = Append(@, chr)]

\* A backspace that clears the text (String::clear) instead of popping.
backspace_clear(sh) == [sh EXCEPT !.times[sh.selected + 1].text = <<>>]

\* TimeSheet::backspace: String::pop on the selected entry's text.
backspace_sheet(sh) ==
    [sh EXCEPT !.times[sh.selected + 1].text = IF @ = <<>> THEN @ ELSE SubSeq(@, 1, Len(@) - 1)]

(***************************************************************************)
(* The editor: the sheet under the key loop's calls.                       *)
(***************************************************************************)
\* Characters the user types in insert mode.
EditChars == {"1", " "}

TheSheet == Sheet(times, selected, register)

\* The sheet becomes sh by the key event that calls op.
Becomes(sh, op) ==
    /\ times' = sh.times
    /\ selected' = sh.selected
    /\ register' = sh.register
    /\ before' = TheSheet
    /\ last' = op
    /\ panicked' = FALSE
    /\ keys' = keys + 1
    /\ UNCHANGED <<now, arg, out>>

\* An index out of bounds: the thread panics with the sheet as it was.
Panics(op) ==
    /\ panicked' = TRUE
    /\ before' = TheSheet
    /\ last' = op
    /\ keys' = keys + 1
    /\ UNCHANGED <<times, selected, register, mode, now, arg, out>>

\* The key loop takes another key: nothing panicked, and the run is not over.
Running == ~panicked /\ keys < MaxKeys

Init ==
    \E file \in Files, clock \in Clocks :
        LET sh == open_or_create(file, clock)
        IN  /\ times = sh.times
            /\ selected = sh.selected
            /\ register = sh.register
            /\ mode = "normal"
            /\ panicked = FALSE
            /\ last = "open_or_create"
            /\ before = sh
            /\ keys = 0
            /\ now = IF file.kind = "json" THEN 0 ELSE clock
            /\ arg = None
            /\ out = None

\* The key loop enters insert mode on the selected entry.
insert_mode ==
    /\ Running /\ mode = "normal"
    /\ mode' = "insert"
    /\ Becomes(TheSheet, "insert_mode")

move_up ==
    /\ Running /\ mode = "normal"
    /\ Becomes(selection_up(TheSheet), "selection_up")
    /\ UNCHANGED mode

move_down ==
    /\ Running /\ mode = "normal"
    /\ Becomes(selection_down(TheSheet), "selection_down")
    /\ UNCHANGED mode

append_to_current ==
    /\ Running /\ mode = "insert"
    /\ IF InBounds(TheSheet)
       THEN \E chr \in EditChars :
                /\ Becomes(append_sheet(TheSheet, chr), "append_to_current")
                /\ UNCHANGED mode
       ELSE Panics("append_to_current")

backspace ==
    /\ Running /\ mode = "insert"
    /\ IF InBounds(TheSheet)
       THEN /\ Becomes(backspace_sheet(TheSheet), "backspace")
            /\ UNCHANGED mode
       ELSE Panics("backspace")

\* Leaving insert mode: the commit.
normal_mode ==
    /\ Running /\ mode = "insert"
    /\ IF InBounds(TheSheet)
       THEN /\ Becomes(normal_mode_sheet(TheSheet), "normal_mode")
            /\ mode' = "normal"
       ELSE Panics("normal_mode")

Next ==
    \/ insert_mode
    \/ move_up
    \/ move_down
    \/ append_to_current
    \/ backspace
    \/ normal_mode

Spec == Init /\ [][Next]_vars

(***************************************************************************)
(* Properties of the editor.                                               *)
(***************************************************************************)
IsSortedByTime(s) == \A i \in 1..(Len(s) - 1) : s[i].time <= s[i + 1].time

\* The last operation was a commit that ran on an entry (it did not panic).
Committed == last = "normal_mode" /\ ~panicked /\ InBounds(before)

\* The entry the last operation ran on, as it was before it.
OldEntry == before.times[before.selected + 1]

\* The part of a text after its first space: empty when there is no space.
LabelPart(text) ==
    IF Find(text, " ") = 0 THEN <<>> ELSE SubSeq(text, Find(text, " ") + 1, Len(text))

\* The part of a text before its first space: all of it when there is no space.
PrefixPart(text) ==
    IF Find(text, " ") = 0 THEN text ELSE SubSeq(text, 1, Find(text, " ") - 1)

HasSpace(text) == Find(text, " ") # 0

\* C1: immediately after a commit of the selected entry, whatever the starting
\* sheet and the edits before it, the entries are non-decreasing by time.
C1_SortedAfterCommit == Committed => IsSortedByTime(times)

\* C2: a commit of an entry whose label part is empty (the text is the prefix
\* alone, the prefix and one space, or nothing) removes that entry: the length
\* decreases by exactly 1 and selected becomes max(0, selected_before - 1).
C2_DeletionClamp ==
    (Committed /\ LabelPart(OldEntry.text) = <<>>) =>
        /\ times = RemoveAt(before.times, before.selected + 1)
        /\ Len(times) = Len(before.times) - 1
        /\ selected = IF before.selected = 0 THEN 0 ELSE before.selected - 1

\* C3: in every reachable state the entry list has at least one entry.
C3_NonEmpty == Len(times) >= 1

\* C4: a commit of an entry that has a label part and whose prefix does not
\* parse as a time keeps the entry, with the time it had and the text
\* "[" HH:MM of that time "] " label part, and does not fail.
C4_FailSoft ==
    (/\ last = "normal_mode"
     /\ InBounds(before)
     /\ HasSpace(OldEntry.text)
     /\ ~Time_parse(strip_brackets(PrefixPart(OldEntry.text))).ok) =>
        /\ ~panicked
        /\ Len(times) = Len(before.times)
        /\ \E j \in 1..Len(times) :
               /\ times[j].time = OldEntry.time
               /\ times[j].text =
                      <<"[">> \o TIME_FORMAT(OldEntry.time) \o <<"]", " ">> \o LabelPart(OldEntry.text)
        /\ Cardinality({j \in 1..Len(times) : times[j].time = OldEntry.time})
               = Cardinality({j \in 1..Len(before.times) : before.times[j].time = OldEntry.time})

\* A fail-soft commit happened: the prefix was damaged, a label was typed.
C4_Witness ==
    /\ Committed
    /\ HasSpace(OldEntry.text)
    /\ LabelPart(OldEntry.text) # <<>>
    /\ ~Time_parse(strip_brackets(PrefixPart(OldEntry.text))).ok
    /\ Len(times) = Len(before.times)

\* C10: selected is an index of the list after every operation, the commits
\* that delete the first, the last or the only entry included, so that no
\* indexing goes out of bounds.  Stated for the operations that start from a
\* sheet with an entry: the sheet of an empty file breaks it before any
\* operation (see C3).
C10_SelectionValid ==
    Len(before.times) >= 1 => (~panicked /\ 0 <= selected /\ selected < Len(times))

(***************************************************************************)
(* Grouping and formatting (pure functions of the entries and the clock).  *)
(***************************************************************************)
PAUSE_TEXTS == {<<"l", "u", "n", "c", "h">>, <<"m", "i", "t", "t", "a", "g">>, <<"p", "a", "u", "s", "e">>}

\* OVERRIDE_REGEX "\((.*)\)" and effective_text: the leftmost match starts at
\* the first "(", and the greedy group runs to the last ")" behind it; with no
\* match the text is kept.  (No text here holds a line break, which "." skips.)
effective_text(s) ==
    LET i == Find(s, "(")
        j == RFind(s, ")")
    IN  IF i # 0 /\ j > i THEN SubSeq(s, i + 1, j - 1) ELSE s

\* Duration::whole_hours and Duration::whole_minutes round toward zero.
whole_hours(d) == TruncDiv(d, 3600)

whole_minutes(d) == TruncDiv(d, 60)

\* Rust's `%` on signed integers: the sign of the dividend.
RustRem(a, b) == a - b * TruncDiv(a, b)

Max(a, b) == IF a >= b THEN a ELSE b

\* A format_duration that does not raise the minutes to 1.
format_duration_plain(d) ==
    IntStr(whole_hours(d)) \o <<":">> \o Pad2(RustRem(whole_minutes(d), 60))

\* format_duration: "{}:{:02}" of whole_hours and whole_minutes.max(1) % 60.
format_duration(d) ==
    IntStr(whole_hours(d)) \o <<":">> \o Pad2(RustRem(Max(whole_minutes(d), 1), 60))

\* String's Ord: bytewise, a proper prefix first.
StrLess(a, b) ==
    \E k \in 1..(Len(b)) :
        /\ \A i \in 1..(k - 1) : i <= Len(a) /\ a[i] = b[i]
        /\ \/ (k = Len(a) + 1)
           \/ (k <= Len(a) /\ Byte(a[k]) < Byte(b[k]))

\* The entries chained with the sentinel TimePoint::new("end").
chained(ts, clock) == ts \o <<TimePoint_new(<<"e", "n", "d">>, clock)>>

\* Windows that stop at the last entry: no sentinel closes the open interval.
windows_unclosed(ts, clock) ==
    [i \in 1..(Len(ts) - 1) |->
        [text |-> splitn2(ts[i].text)[Len(splitn2(ts[i].text))],
         duration |-> ts[i + 1].time - ts[i].time]]

\* grouped_times, lines 87-96: for each adjacent pair, the text of the first
\* after its first space (all of it without one) and the time between them.
windows(ts, clock) ==
    LET c == chained(ts, clock)
    IN  [i \in 1..(Len(c) - 1) |->
            [text |-> splitn2(c[i].text)[Len(splitn2(c[i].text))],
             duration |-> c[i + 1].time - c[i].time]]

\* A map entry that is overwritten, not added to.
entry_set(map, k, d) ==
    IF \E i \in 1..Len(map) : map[i].key = k
    THEN [i \in 1..Len(map) |-> IF map[i].key = k THEN [key |-> k, value |-> d] ELSE map[i]]
    ELSE LET n == Cardinality({i \in 1..Len(map) : StrLess(map[i].key, k)})
         IN  SubSeq(map, 1, n) \o <<[key |-> k, value |-> d]>> \o SubSeq(map, n + 1, Len(map))

\* A map that keeps its entries in the order of their first insertion.
entry_push(map, k, d) ==
    IF \E i \in 1..Len(map) : map[i].key = k
    THEN [i \in 1..Len(map) |->
             IF map[i].key = k THEN [key |-> k, value |-> map[i].value + d] ELSE map[i]]
    ELSE Append(map, [key |-> k, value |-> d])

\* *map.entry(k).or_insert_with(Duration::zero) += d on a BTreeMap, kept as the
\* sequence of its entries in key order.
entry_add(map, k, d) ==
    IF \E i \in 1..Len(map) : map[i].key = k
    THEN [i \in 1..Len(map) |->
             IF map[i].key = k THEN [key |-> k, value |-> map[i].value + d] ELSE map[i]]
    ELSE LET n == Cardinality({i \in 1..Len(map) : StrLess(map[i].key, k)})
         IN  SubSeq(map, 1, n) \o <<[key |-> k, value |-> d]>> \o SubSeq(map, n + 1, Len(map))

\* grouped_times, lines 100-104: the fold into the map.
RECURSIVE fold_groups(_, _)
fold_groups(pairs, map) ==
    IF pairs = <<>> THEN map
    ELSE fold_groups(Tail(pairs),
                     entry_add(map, effective_text(Head(pairs).text), Head(pairs).duration))

\* The map of grouped_times before the filter.
grouped_fold(ts, clock) == fold_groups(windows(ts, clock), <<>>)

\* A grouped_times that filters nothing.
grouped_unfiltered(ts, clock) == grouped_fold(ts, clock)

\* grouped_times: the map's entries in key order, without the pause texts.
grouped_times(ts, clock) ==
    SelectSeq(grouped_fold(ts, clock), LAMBDA e : e.key \notin PAUSE_TEXTS)

RECURSIVE SumValues(_)
SumValues(groups) ==
    IF groups = <<>> THEN 0 ELSE Head(groups).value + SumValues(Tail(groups))

\* Itertools::join(" | ")
RECURSIVE join(_)
join(items) ==
    IF items = <<>> THEN <<>>
    ELSE IF Len(items) = 1 THEN items[1]
    ELSE items[1] \o <<" ", "|", " ">> \o join(Tail(items))

\* A breakdown that lists the buckets of the map before the filter.
tasks_with_pause(ts, clock) == grouped_fold(ts, clock)

\* time_by_tasks, line 110: the buckets it lists.
tasks_listed(ts, clock) == grouped_times(ts, clock)

\* TimeSheet::time_by_tasks
time_by_tasks(ts, clock) ==
    LET g == tasks_listed(ts, clock)
    IN  join([i \in 1..Len(g) |-> g[i].key \o <<" ">> \o format_duration(g[i].value)])

\* The total of sum_as_str before it is formatted.
sum_total(ts, clock) == SumValues(grouped_times(ts, clock))

\* TimeSheet::sum_as_str
sum_as_str(ts, clock) == format_duration(sum_total(ts, clock))

(***************************************************************************)
(* The summary: a loaded sheet under the renderer's queries.               *)
(***************************************************************************)
\* The entries of the end-to-end scenario.
Scenario ==
    <<Saved(HM(9, 0), <<"s", "t", "a", "r", "t">>), Saved(HM(9, 30), <<"d", "e", "v">>),
      Saved(HM(12, 0), <<"l", "u", "n", "c", "h">>), Saved(HM(13, 0), <<"d", "e", "v">>)>>

\* Entries of the sheets the queries run on: plain labels, a pause text, an
\* override of a label, an override that names a pause text.
AggPoints ==
    {Saved(HM(9, 0), <<"a">>), Saved(HM(9, 10), <<"(", "a", ")", " ", "b">>),
     Saved(HM(9, 30), <<"l", "u", "n", "c", "h">>),
     Saved(HM(10, 15), <<"(", "p", "a", "u", "s", "e", ")", "x">>),
     Saved(HM(11, 0), <<"b">>)}

AggSheets == {Scenario} \cup BoundedSeqs(AggPoints, MaxAggLen)

\* Wall clock values at a query: after all entries (with and without seconds)
\* and before some of them.
AggClocks == {HM(17, 0), HM(17, 0) + 30, HM(9, 20)}

\* The state of a sheet that handled no key.
Loaded(sh) ==
    /\ times = sh.times
    /\ selected = sh.selected
    /\ register = sh.register
    /\ mode = "normal"
    /\ panicked = FALSE
    /\ last = "open_or_create"
    /\ before = sh
    /\ keys = 0
    /\ now = 0
    /\ arg = None
    /\ out = None

InitAgg ==
    \E e \in AggSheets : Loaded(open_or_create([kind |-> "json", entries |-> e], 0))

Call_time_by_tasks ==
    \E clock \in AggClocks :
        /\ now' = clock
        /\ last' = "time_by_tasks"
        /\ out' = [folded |-> grouped_fold(times, clock),
                   groups |-> tasks_listed(times, clock),
                   total |-> 0,
                   text |-> time_by_tasks(times, clock)]
        /\ UNCHANGED <<times, selected, register, mode, panicked, before, keys, arg>>

Call_sum_as_str ==
    \E clock \in AggClocks :
        /\ now' = clock
        /\ last' = "sum_as_str"
        /\ out' = [folded |-> grouped_fold(times, clock),
                   groups |-> grouped_times(times, clock),
                   total |-> sum_total(times, clock),
                   text |-> sum_as_str(times, clock)]
        /\ UNCHANGED <<times, selected, register, mode, panicked, before, keys, arg>>

NextAgg == Call_time_by_tasks \/ Call_sum_as_str

SpecAgg == InitAgg /\ [][NextAgg]_vars

(***************************************************************************)
(* format_duration on its own.                                             *)
(***************************************************************************)
\* Durations in seconds: whole minutes and half minutes, of either sign.
Durations == {m * 60 + s : m \in (-MaxMinutes)..MaxMinutes, s \in {0, 30}}

InitFmt ==
    /\ arg \in Durations
    /\ out = None
    /\ last = "none"
    /\ times = <<>> /\ selected = 0 /\ register = None /\ mode = "normal"
    /\ panicked = FALSE /\ before = Sheet(<<>>, 0, None) /\ keys = 0 /\ now = 0

Call_format_duration ==
    /\ last = "none"
    /\ out' = format_duration(arg)
    /\ last' = "format_duration"
    /\ UNCHANGED <<times, selected, register, mode, panicked, before, keys, now, arg>>

NextFmt == Call_format_duration

SpecFmt == InitFmt /\ [][NextFmt]_vars

(***************************************************************************)
(* effective_text on its own.                                              *)
(***************************************************************************)
QuickNote ==
    <<"(", "q", "u", "i", "c", "k", " ", "n", "o", "t", "e", ")", " ", "m", "e", "e", "t", "i", "n", "g">>

Labels == {QuickNote} \cup BoundedSeqs({"(", ")", "a"}, MaxLabelLen)

InitText ==
    /\ arg \in Labels
    /\ out = None
    /\ last = "none"
    /\ times = <<>> /\ selected = 0 /\ register = None /\ mode = "normal"
    /\ panicked = FALSE /\ before = Sheet(<<>>, 0, None) /\ keys = 0 /\ now = 0

Call_effective_text ==
    /\ last = "none"
    /\ out' = effective_text(arg)
    /\ last' = "effective_text"
    /\ UNCHANGED <<times, selected, register, mode, panicked, before, keys, now, arg>>

NextText == Call_effective_text

SpecText == InitText /\ [][NextText]_vars

(***************************************************************************)
(* Properties of the grouping and formatting functions.                    *)
(***************************************************************************)
Queried == last \in {"time_by_tasks", "sum_as_str"}

\* The time from entry i to the next entry, or to the clock for the last one.
IntervalAt(i) == (IF i < Len(times) THEN times[i + 1].time ELSE now) - times[i].time

\* The label entry i is grouped under.
EffectiveLabelAt(i) == effective_text(splitn2(times[i].text)[Len(splitn2(times[i].text))])

RECURSIVE SumOver(_, _)
SumOver(f, S) ==
    IF S = {} THEN 0
    ELSE LET x == CHOOSE y \in S : TRUE IN f[x] + SumOver(f, S \ {x})

\* C5: for a sheet with at least one entry and any clock value, the durations
\* of all buckets of the fold (before the pause filter) add up to the
\* sentinel's time minus the first entry's time.
C5_DurationConservation ==
    (Queried /\ Len(times) >= 1) => SumValues(out.folded) = now - times[1].time

\* A query ran on a sheet whose entries were merged into fewer buckets.
C5_Witness ==
    /\ Queried
    /\ Len(times) >= 3
    /\ Len(out.folded) >= 2
    /\ Len(out.folded) < Len(times)
    /\ SumValues(out.folded) = now - times[1].time

\* C6: the total of sum_as_str is the sum of the intervals whose effective
\* label is none of "lunch", "mittag", "pause": those contribute nothing, every
\* other interval contributes all of its duration.
C6_PauseExcluded ==
    last = "sum_as_str" =>
        /\ out.total =
               SumOver([i \in 1..Len(times) |-> IntervalAt(i)],
                       {i \in 1..Len(times) : EffectiveLabelAt(i) \notin PAUSE_TEXTS})
        /\ out.text = format_duration(out.total)

\* A total was taken of a sheet with a pause interval and another interval.
C6_Witness ==
    /\ last = "sum_as_str"
    /\ \E i \in 1..Len(times) : EffectiveLabelAt(i) \in PAUSE_TEXTS /\ IntervalAt(i) # 0
    /\ \E i \in 1..Len(times) : EffectiveLabelAt(i) \notin PAUSE_TEXTS /\ IntervalAt(i) # 0
    /\ out.total # now - times[1].time

Dev == <<"d", "e", "v">>

Start == <<"s", "t", "a", "r", "t">>

\* C7: with the scenario's entries and the clock at 17:00, the two "dev"
\* intervals are one bucket of 390 minutes shown as "6:30", "start" is a bucket
\* of 30 minutes, "lunch" is left out as pause, and the total is 420 minutes,
\* shown as "7:00".
C7_Scenario ==
    (Queried /\ times = Scenario /\ whole_minutes(now) = 17 * 60) =>
        /\ Len(out.groups) = 2
        /\ out.groups[1].key = Dev /\ whole_minutes(out.groups[1].value) = 390
        /\ format_duration(out.groups[1].value) = <<"6", ":", "3", "0">>
        /\ out.groups[2].key = Start /\ whole_minutes(out.groups[2].value) = 30
        /\ \E i \in 1..Len(out.folded) :
               /\ out.folded[i].key = <<"l", "u", "n", "c", "h">>
               /\ whole_minutes(out.folded[i].value) = 60
        /\ last = "sum_as_str" =>
               /\ whole_minutes(out.total) = 420
               /\ out.text = <<"7", ":", "0", "0">>
        /\ last = "time_by_tasks" =>
               out.text = Dev \o <<" ", "6", ":", "3", "0", " ", "|", " ">> \o Start
                              \o <<" ", "0", ":", "3", "0">>

\* The total of the scenario was taken at 17:00.
C7_Witness ==
    /\ last = "sum_as_str"
    /\ times = Scenario
    /\ now = HM(17, 0)
    /\ out.text = <<"7", ":", "0", "0">>

\* The duration of the last call in whole minutes.
ArgMinutes == whole_minutes(arg)

\* C8 as claimed: a duration of m whole minutes, of either sign, is shown as
\* floor(m / 60) ":" (m mod 60, two digits), except that m = 0 is "0:01".
C8_FormatAsClaimed ==
    last = "format_duration" =>
        out = IF ArgMinutes = 0 THEN <<"0", ":", "0", "1">>
              ELSE IntStr(ArgMinutes \div 60) \o <<":">> \o Pad2(ArgMinutes % 60)

\* C8 as amended: m >= 1 is shown as floor(m / 60) ":" (m mod 60, two digits);
\* every m <= 0 is shown with the minutes "01" and the hours m / 60 rounded
\* toward zero (0 is "0:01", -90 is "-1:01").
C8_Format ==
    last = "format_duration" =>
        out = IF ArgMinutes >= 1
              THEN IntStr(ArgMinutes \div 60) \o <<":">> \o Pad2(ArgMinutes % 60)
              ELSE IntStr(-((-ArgMinutes) \div 60)) \o <<":", "0", "1">>

\* A negative duration was formatted.
C8_Witness ==
    /\ last = "format_duration"
    /\ arg = -(90 * 60)
    /\ out = <<"-", "1", ":", "0", "1">>

\* The inner contents of the segments of s: what stands between a "(" and the
\* next ")" with no parenthesis in between.
SegmentInners(s) ==
    {SubSeq(s, i + 1, j - 1) :
        <<i, j>> \in {p \in (1..Len(s)) \X (1..Len(s)) :
                        /\ p[1] < p[2]
                        /\ s[p[1]] = "("
                        /\ s[p[2]] = ")"
                        /\ \A k \in (p[1] + 1)..(p[2] - 1) : s[k] \notin {"(", ")"}}}

\* The parentheses of s pair up without nesting.
WellFormed(s) ==
    \A k \in 0..Len(s) :
        LET opens == Cardinality({i \in 1..k : s[i] = "("})
            closes == Cardinality({i \in 1..k : s[i] = ")"})
        IN  /\ opens - closes \in {0, 1}
            /\ k = Len(s) => opens = closes

\* C9: the effective label of a raw label with a "(" ... ")" segment is the
\* inner content of a segment, also when the label holds several segments; a
\* label without a segment is used unchanged.
C9_OverrideExtraction ==
    (last = "effective_text" /\ WellFormed(arg)) =>
        IF SegmentInners(arg) # {} THEN out \in SegmentInners(arg) ELSE out = arg

(***************************************************************************)
(* A new entry and its commit: TimePoint::new(label), put in the list and  *)
(* committed as it is.                                                     *)
(***************************************************************************)
\* Labels of a new entry: empty, with letters, digits and spaces.
NewLabels == BoundedSeqs({" ", "a", "1"}, MaxLabelLen)

\* Wall clock values at TimePoint::new: morning and evening, with seconds.
NewClocks == {HM(0, 0), HM(9, 5) + 59, HM(12, 30), HM(23, 59) + 30}

InitNew ==
    \E label \in NewLabels, clock \in NewClocks :
        /\ times = <<TimePoint_new(label, clock)>>
        /\ selected = 0
        /\ register = None
        /\ mode = "insert"
        /\ panicked = FALSE
        /\ last = "TimePoint_new"
        /\ before = Sheet(<<TimePoint_new(label, clock)>>, 0, None)
        /\ keys = 0
        /\ now = clock
        /\ arg = label
        /\ out = None

NextNew == normal_mode

SpecNew == InitNew /\ [][NextNew]_vars

\* The time of day t cut to its minute.
MinuteOf(t) == t - (t % 60)

\* C11: the display text of TimePoint::new(label), split and parsed the way the
\* commit does, gives back the label and the time to the minute; so the commit
\* of a new, unedited entry leaves its text, its hour and its minute as they are.
C11_RoundTrip ==
    /\ last = "TimePoint_new" =>
           LET parts == splitn2(times[1].text)
           IN  /\ Len(parts) = 2
               /\ parts[2] = arg
               /\ Time_parse(strip_brackets(parts[1])).ok
               /\ Time_parse(strip_brackets(parts[1])).time = MinuteOf(now)
    /\ last = "normal_mode" =>
           /\ ~panicked
           /\ Len(times) = 1
           /\ times[1].text = before.times[1].text
           /\ times[1].time = MinuteOf(before.times[1].time)
           /\ LabelPart(times[1].text) = arg

\* A new entry with spaces in its label, made in the evening, was committed.
C11_Witness ==
    /\ last = "normal_mode"
    /\ arg = <<"a", " ", "1">>
    /\ now = HM(23, 59) + 30
    /\ Len(times) = 1
    /\ times[1].time = HM(23, 59)

\* Bytewise lexicographic order of two strings.
RECURSIVE LexLess(_, _)
LexLess(a, b) ==
    IF b = <<>> THEN FALSE
    ELSE IF a = <<>> THEN TRUE
    ELSE IF a[1] = b[1] THEN LexLess(Tail(a), Tail(b))
    ELSE Byte(a[1]) < Byte(b[1])

\* The items "{label} {formatted_duration}" of a sequence of buckets.
RECURSIVE Items(_)
Items(groups) ==
    IF groups = <<>> THEN <<>>
    ELSE <<Head(groups).key \o <<" ">> \o format_duration(Head(groups).value)>>
             \o Items(Tail(groups))

\* The effective labels of the entries that are no pause text.
ShownLabels == {EffectiveLabelAt(i) : i \in 1..Len(times)} \ PAUSE_TEXTS

\* C12: time_by_tasks lists every distinct effective label once, as
\* "{label} {formatted_duration}" items joined by " | ", the labels strictly
\* ascending in lexicographic order, whatever the order in which the labels
\* first occur in the entries.
C12_StableLabelOrder ==
    last = "time_by_tasks" =>
        /\ \A i \in 1..(Len(out.groups) - 1) :
               LexLess(out.groups[i].key, out.groups[i + 1].key)
        /\ {out.groups[i].key : i \in 1..Len(out.groups)} = ShownLabels
        /\ Len(out.groups) = Cardinality(ShownLabels)
        /\ out.text = join(Items(out.groups))

\* The breakdown of a sheet whose first label is not its smallest one.
C12_Witness ==
    /\ last = "time_by_tasks"
    /\ Len(times) >= 2
    /\ Len(out.groups) >= 2
    /\ EffectiveLabelAt(1) = out.groups[2].key
    /\ Find(out.text, "|") # 0

\* C16: the buckets time_by_tasks lists are the buckets sum_as_str adds up at
\* the same clock value: no bucket of a pause text is listed, and the total of
\* sum_as_str is the sum of the listed durations.
C16_PauseVisibility ==
    last = "time_by_tasks" =>
        /\ out.groups = grouped_times(times, now)
        /\ \A i \in 1..Len(out.groups) : out.groups[i].key \notin PAUSE_TEXTS
        /\ SumValues(out.groups) = sum_total(times, now)
        /\ out.text = join(Items(out.groups))

\* The breakdown of a sheet with a pause interval and two other buckets.
C16_Witness ==
    /\ last = "time_by_tasks"
    /\ \E i \in 1..Len(times) : EffectiveLabelAt(i) \in PAUSE_TEXTS
    /\ Len(out.groups) >= 2
    /\ Len(out.folded) > Len(out.groups)

(***************************************************************************)
(* The editor late in an edit: the user has erased the first entry's text  *)
(* down to its first character or to nothing, which takes more key events *)
(* than MaxKeys from a loaded sheet.  The run picks up three key events    *)
(* before its end.                                                         *)
(***************************************************************************)
\* The first entry's text cut to its first n characters.
ErasedTo(ts, n) == [ts EXCEPT ![1].text = SubSeq(@, 1, n)]

InitErased ==
    \E e \in BoundedSeqs(FilePoints, MaxLoad) \ {<<>>}, n \in {0, 1} :
        /\ times = ErasedTo(e, n)
        /\ selected = 0
        /\ register = None
        /\ mode = "insert"
        /\ panicked = FALSE
        /\ last = "backspace"
        /\ before = Sheet(ErasedTo(e, n + 1), 0, None)
        /\ keys = MaxKeys - 3
        /\ now = 0
        /\ arg = None
        /\ out = None

\* The editor from a loaded or default sheet, and from a sheet late in an edit.
SpecEdit == (Init \/ InitErased) /\ [][Next]_vars

\* The last commit took the rewrite branch: the entry had a label part.
Rewrote == Committed /\ HasSpace(OldEntry.text)

\* What the prefix of the committed entry parsed to.
ParsedPrefix == Time_parse(strip_brackets(PrefixPart(OldEntry.text)))

\* "[" HH:MM of t "] " label
Shown(t, label) == <<"[">> \o TIME_FORMAT(t) \o <<"]", " ">> \o label

\* C13: a commit of an entry with a label part whose prefix parses to t leaves
\* that entry with time t and the text "[" HH:MM of t "] " label part, at a
\* place of the sorted list that fits t.
C13_SuccessfulCommit ==
    (Rewrote /\ ParsedPrefix.ok) =>
        /\ Len(times) = Len(before.times)
        /\ IsSortedByTime(times)
        /\ \E j \in 1..Len(times) :
               /\ times[j].time = ParsedPrefix.time
               /\ times[j].text = Shown(ParsedPrefix.time, LabelPart(OldEntry.text))
               /\ SubSeq(times[j].text, 2, 6) = TIME_FORMAT(times[j].time)
               /\ \A i \in 1..(j - 1) : times[i].time <= ParsedPrefix.time
               /\ \A i \in (j + 1)..Len(times) : ParsedPrefix.time <= times[i].time

\* A typed time was committed: the entry got another hour or minute.
C13_Witness ==
    /\ Rewrote
    /\ ParsedPrefix.ok
    /\ TIME_FORMAT(ParsedPrefix.time) # TIME_FORMAT(OldEntry.time)
    /\ Len(times) >= 2

\* The one-to-one maps of 1..n onto itself.
Perms(n) == {f \in [1..n -> 1..n] : \A i, j \in 1..n : f[i] = f[j] => i = j}

\* f takes the entries before the commit to their places after it: every
\* entry but the committed one is as it was, the committed one keeps its
\* label, and entries of equal time keep their order.
MovesBy(f) ==
    /\ \A i \in 1..Len(times) : i # before.selected + 1 => times[f[i]] = before.times[i]
    /\ LabelPart(times[f[before.selected + 1]].text) = LabelPart(OldEntry.text)
    /\ \A i, j \in 1..Len(times) :
           (i < j /\ times[f[i]].time = times[f[j]].time) => f[i] < f[j]

\* C14: a commit that rewrites and resorts leaves the length, the register and
\* the number in selected as they were; the list is a permutation of the one
\* before with only the committed entry changed, and entries of equal time
\* keep their order; selected is not moved along with the committed entry.
C14_CommitFrame ==
    Rewrote =>
        /\ Len(times) = Len(before.times)
        /\ register = before.register
        /\ selected = before.selected
        /\ \E f \in Perms(Len(times)) : MovesBy(f)

\* A commit moved its entry to another index and selected stayed.
C14_Witness ==
    /\ Rewrote
    /\ Len(times) >= 2
    /\ selected = before.selected
    /\ \E f \in Perms(Len(times)) : MovesBy(f) /\ f[before.selected + 1] # before.selected + 1
    /\ LabelPart(times[selected + 1].text) # LabelPart(OldEntry.text)

TimesOf(s) == [i \in 1..Len(s) |-> s[i].time]

\* Nothing but the text of the selected entry differs from before.
OnlySelectedText ==
    /\ selected = before.selected
    /\ register = before.register
    /\ Len(times) = Len(before.times)
    /\ TimesOf(times) = TimesOf(before.times)
    /\ \A i \in 1..Len(times) : i # selected + 1 => times[i] = before.times[i]

\* C15: append_to_current adds one character at the end of the selected
\* entry's text, backspace removes its last character (nothing from an empty
\* text); neither changes a time, the order or number of entries, selected or
\* the register, so a sorted list stays sorted, and times change in a commit only.
C15_EditFrame ==
    /\ (last = "append_to_current" /\ ~panicked) =>
           /\ OnlySelectedText
           /\ \E chr \in EditChars : times[selected + 1].text = Append(OldEntry.text, chr)
    /\ (last = "backspace" /\ ~panicked) =>
           /\ OnlySelectedText
           /\ times[selected + 1].text =
                  IF OldEntry.text = <<>> THEN <<>>
                  ELSE SubSeq(OldEntry.text, 1, Len(OldEntry.text) - 1)
    /\ (last \in {"append_to_current", "backspace"} /\ IsSortedByTime(before.times)) =>
           IsSortedByTime(times)
    /\ last \notin {"normal_mode", "open_or_create"} => TimesOf(times) = TimesOf(before.times)

\* A character was erased from an entry of a sorted list of several entries.
C15_Erased ==
    /\ last = "backspace"
    /\ ~panicked
    /\ Len(times) >= 2
    /\ IsSortedByTime(times)
    /\ Len(times[selected + 1].text) = Len(OldEntry.text) - 1
    /\ times[selected + 1].time = OldEntry.time

\* A backspace on an empty text in a sorted list of several entries: there was
\* nothing to remove, and the sheet is as it was.
C15_Witness ==
    /\ last = "backspace"
    /\ ~panicked
    /\ Len(times) >= 2
    /\ IsSortedByTime(times)
    /\ OldEntry.text = <<>>
    /\ times = before.times

====
